---- MODULE Spec2Model ----
(***************************************************************************)
(* State-machine model of src/src/main.rs: a seller offers one inscribed  *)
(* output for PRICE, the buyer provisions a low-value separator ("dummy") *)
(* output, selects payment outputs largest-first, assembles the combined  *)
(* purchase transaction, has its wallet sign it and broadcasts it.        *)
(*                                                                         *)
(* Amounts are u64 satoshi values.  An integer n of the model denotes the *)
(* u64 value n when n >= 0 and the u64 value 2^64 + n when n < 0, i.e. a  *)
(* negative n is the result of a subtraction that wrapped around once     *)
(* (all magnitudes of the model are far below 2^64).                      *)
(***************************************************************************)
EXTENDS Integers, Sequences, FiniteSets, TLC

(* ---- program constants ---- *)
PRICE == 1900
SERVICE_FEE == 1000
DummyValue == 1000
DummyTxFee == 258
DummyAllowance == 1000
RequiredPaymentValue == PRICE + SERVICE_FEE + 1000 + 180 * 2 + 3 * 34 + 10
\* the part of RequiredPaymentValue that no output of the purchase carries
Overhead == 180 * 2 + 3 * 34 + 10

(* ---- bounds of the model ---- *)
MaxUtxos == 3
MaxRuns == 3

\* values an unspent output of the buyer wallet may initially have
Amounts == {500, 1000, 1200, 1258, 3000, 5000}
\* values the inscribed output on sale may have
InscriptionValues == {546, 10000}
\* funds the buyer wallet may hold on addresses other than BUYER_ADDRESS
OtherFunds == {0, 2000}

None == [id |-> 0, amount |-> 0, insc |-> FALSE]
\* the out-point named by SELLER_UTXO; wallet out-points are numbered from 1
InscriptionOutPoint == 0
NoTx == [input |-> <<>>, output |-> <<>>]

VARIABLES
  pc,               \* position of the run in main / create_buyer_psbt
  run,              \* number of the current run of the program
  build,            \* "debug": overflow checks panic; "release": they wrap
  wallet,           \* the buyer node's unspent outputs, in list_unspent order
  nextId,           \* next fresh out-point of the chain
  sellerPsbt,       \* the PSBT returned by the seller wallet
  inscriptionTxOut, \* the inscribed output (value, script) handed to the buyer side
  balance,          \* result of BUYER_NODE.get_balance
  sorted,           \* sorted_spendable_utxos
  dummy,            \* dummy_utxo
  dummyTx,          \* the separator-creation transaction of retrieve_dummy_utxo
  purchaseTx,       \* purchase_tx
  rest,             \* the part of reversed_sorted_utxos the loop has not visited
  selected,         \* selected_payment_utxos
  paymentValue,     \* payment_utxos_value
  buyerPsbtInputs,  \* buyer_psbt.inputs
  inscribed,        \* value of the inscribed output named by SELLER_UTXO
  signed,           \* transactions handed to the buyer wallet for signing in this run
  sent,             \* transactions broadcast by this run
  lastDummy         \* separator returned by the previous run on the same wallet state

vars == <<pc, run, build, wallet, nextId, sellerPsbt, inscriptionTxOut, balance,
          sorted, dummy, dummyTx, purchaseTx, rest, selected, paymentValue,
          buyerPsbtInputs, inscribed, signed, sent, lastDummy>>

(* ---- pure helpers ---- *)
RECURSIVE SumAmounts(_)
SumAmounts(s) ==
  IF s = <<>> THEN 0 ELSE s[1].amount + SumAmounts(Tail(s))

RECURSIVE SumValues(_)
SumValues(s) ==
  IF s = <<>> THEN 0 ELSE s[1].value + SumValues(Tail(s))

\* u64 subtraction: the difference, negative when it wrapped around
SubU64(a, b) == a - b
Underflows(a, b) == a < b

\* the candidates left in ascending order
ReverseOmitted(s) == s

Reverse(s) == [i \in 1..Len(s) |-> s[Len(s) + 1 - i]]

\* place x behind every element whose key is <= x's key (stable)
InsertByAmount(s, x) ==
  LET k == Cardinality({i \in 1..Len(s) : s[i].amount <= x.amount})
  IN  SubSeq(s, 1, k) \o <<x>> \o SubSeq(s, k + 1, Len(s))

RECURSIVE SortByAmount(_)
SortByAmount(s) ==
  IF s = <<>> THEN <<>>
  ELSE InsertByAmount(SortByAmount(SubSeq(s, 1, Len(s) - 1)), s[Len(s)])

IsUtxoInscription(u) == u.insc = TRUE
NotInscription(u) == IsUtxoInscription(u) = FALSE

GetBuyerSpendableUtxos(w) == SortByAmount(SelectSeq(w, NotInscription))

IsDummySized(u) == u.amount <= DummyValue
IsBelowDummySize(u) == u.amount < DummyValue

\* a filter that misses an output of exactly the dummy value
PotentialDummyUtxosStrict(utxos) == SelectSeq(utxos, IsBelowDummySize)

PotentialDummyUtxos(utxos) == SelectSeq(utxos, IsDummySized)

TxIn(id, scriptSig, sequence) ==
  [prev |-> id, script_sig |-> scriptSig, sequence |-> sequence, witness |-> "empty"]
TxOut(value, script) == [value |-> value, script |-> script]

(* ---- PSBT input metadata; -1 stands for an absent field ---- *)
EmptyPsbtInput == [non_witness_utxo |-> -1, sighash_type |-> "unset", partial_sig |-> "none"]
WithUtxo(id) == [non_witness_utxo |-> id, sighash_type |-> "unset", partial_sig |-> "none"]

\* Psbt::from_unsigned_tx: one empty metadata entry per input
FromUnsignedTx(tx) == [i \in 1..Len(tx.input) |-> EmptyPsbtInput]

(* ---- the node: validation and the wallet's view of the chain ---- *)
WalletIds(w) == {w[i].id : i \in 1..Len(w)}

InputValue(w, prev) ==
  IF prev = InscriptionOutPoint THEN inscribed
  ELSE LET i == CHOOSE j \in 1..Len(w) : w[j].id = prev IN w[i].amount

RECURSIVE SumInputs(_, _)
SumInputs(w, ins) ==
  IF ins = <<>> THEN 0 ELSE InputValue(w, ins[1].prev) + SumInputs(w, Tail(ins))

\* send_raw_transaction succeeds: inputs distinct and unspent, every output
\* value a real amount (not a wrapped one), outputs covered by inputs
NodeAccepts(w, tx) ==
  /\ \A i, j \in 1..Len(tx.input) : i # j => tx.input[i].prev # tx.input[j].prev
  /\ \A i \in 1..Len(tx.input) :
       tx.input[i].prev \in WalletIds(w) \cup {InscriptionOutPoint}
  /\ \A i \in 1..Len(tx.output) : tx.output[i].value >= 0
  /\ SumValues(tx.output) <= SumInputs(w, tx.input)

\* the buyer wallet's unspent list after tx: spent entries dropped, the outputs
\* paying the buyer appended; output `holder` (0: none) carries the inscription
ApplyTx(w, tx, id0, holder) ==
  LET spent == {tx.input[i].prev : i \in 1..Len(tx.input)}
      outs  == [i \in 1..Len(tx.output) |->
                  [id |-> id0 + i - 1, amount |-> tx.output[i].value,
                   insc |-> (i = holder), script |-> tx.output[i].script]]
      mine  == SelectSeq(outs, LAMBDA o : o.script = "buyer")
  IN  SelectSeq(w, LAMBDA u : u.id \notin spent)
        \o [i \in 1..Len(mine) |->
              [id |-> mine[i].id, amount |-> mine[i].amount, insc |-> mine[i].insc]]

(* ---- initial states ---- *)
InitialWallets ==
  UNION {{[i \in 1..n |-> [id |-> i, amount |-> a[i], insc |-> h[i]]] :
            a \in [1..n -> Amounts], h \in [1..n -> BOOLEAN]} : n \in 0..MaxUtxos}

Init ==
  /\ pc = "main"
  /\ run = 1
  /\ build \in {"debug", "release"}
  /\ wallet \in InitialWallets
  /\ nextId = MaxUtxos + 1
  /\ inscribed \in InscriptionValues
  /\ sellerPsbt = [tx |-> NoTx, inputs |-> <<>>]
  /\ inscriptionTxOut = TxOut(0, "none")
  /\ balance = 0
  /\ sorted = <<>>
  /\ dummy = None
  /\ dummyTx = NoTx
  /\ purchaseTx = NoTx
  /\ rest = <<>>
  /\ selected = <<>>
  /\ paymentValue = 0
  /\ buyerPsbtInputs = <<>>
  /\ signed = <<>>
  /\ sent = <<>>
  /\ lastDummy = None

(* ---- create_seller_psbt ---- *)
CreateSellerPsbt ==
  /\ pc = "main"
  /\ sellerPsbt' =
       [tx |-> [input |-> <<TxIn(InscriptionOutPoint, "empty", "MAX")>>,
                output |-> <<TxOut(PRICE, "seller")>>],
        inputs |-> <<[non_witness_utxo |-> InscriptionOutPoint,
                      sighash_type |-> "SINGLE|ANYONECANPAY",
                      partial_sig |-> "seller"]>>]
  /\ inscriptionTxOut' = TxOut(inscribed, "seller")
  /\ pc' = "balance"
  /\ UNCHANGED <<run, build, wallet, nextId, balance, sorted, dummy, dummyTx,
                 purchaseTx, rest, selected, paymentValue, buyerPsbtInputs,
                 inscribed, signed, sent, lastDummy>>

\* a balance check against the wrong constant
InsufficientBalanceWrongConstant(b) == b < SERVICE_FEE

InsufficientBalance(b) == b < PRICE

(* ---- create_buyer_psbt: the balance pre-check ---- *)
CheckBalance ==
  /\ pc = "balance"
  /\ \E other \in OtherFunds : balance' = SumAmounts(wallet) + other
  /\ pc' = IF InsufficientBalance(balance') THEN "abandoned_balance" ELSE "list"
  /\ UNCHANGED <<run, build, wallet, nextId, sellerPsbt, inscriptionTxOut, sorted,
                 dummy, dummyTx, purchaseTx, rest, selected, paymentValue,
                 buyerPsbtInputs, inscribed, signed, sent, lastDummy>>

(* ---- create_buyer_psbt: the spendable outputs ---- *)
ListSpendable ==
  /\ pc = "list"
  /\ sorted' = GetBuyerSpendableUtxos(wallet)
  /\ pc' = IF Len(sorted') = 0 THEN "abandoned_nospendable" ELSE "dummy"
  /\ UNCHANGED <<run, build, wallet, nextId, sellerPsbt, inscriptionTxOut, balance,
                 dummy, dummyTx, purchaseTx, rest, selected, paymentValue,
                 buyerPsbtInputs, inscribed, signed, sent, lastDummy>>

(* ---- retrieve_dummy_utxo: an output of dummy size exists ---- *)
RetrieveDummyReuse ==
  /\ pc = "dummy"
  /\ Len(PotentialDummyUtxos(sorted)) # 0
  /\ dummy' = PotentialDummyUtxos(sorted)[1]
  /\ pc' = "build"
  /\ UNCHANGED <<run, build, wallet, nextId, sellerPsbt, inscriptionTxOut, balance,
                 sorted, dummyTx, purchaseTx, rest, selected, paymentValue,
                 buyerPsbtInputs, inscribed, signed, sent, lastDummy>>

\* the transaction that splits utxos[0] into a dummy output and change
DummyCreationTx(utxos) ==
  [input  |-> <<TxIn(utxos[1].id, "empty", "MAX")>>,
   output |-> <<TxOut(DummyValue, "buyer"),
                TxOut(SubU64(SubU64(utxos[1].amount, DummyValue), DummyTxFee), "buyer")>>]

DummyChangeUnderflows(utxos) ==
  \/ Underflows(utxos[1].amount, DummyValue)
  \/ Underflows(SubU64(utxos[1].amount, DummyValue), DummyTxFee)

(* ---- retrieve_dummy_utxo: none exists, build one and have it signed ---- *)
RetrieveDummyCreate ==
  /\ pc = "dummy"
  /\ Len(PotentialDummyUtxos(sorted)) = 0
  /\ IF build = "debug" /\ DummyChangeUnderflows(sorted)
     THEN /\ pc' = "panicked"
          /\ UNCHANGED <<dummyTx, signed>>
     ELSE /\ dummyTx' = DummyCreationTx(sorted)
          /\ signed' = Append(signed, [kind |-> "dummy", tx |-> dummyTx',
                                       inputs |-> <<WithUtxo(sorted[1].id)>>])
          /\ pc' = "dummy_send"
  /\ UNCHANGED <<run, build, wallet, nextId, sellerPsbt, inscriptionTxOut, balance,
                 sorted, dummy, purchaseTx, rest, selected, paymentValue,
                 buyerPsbtInputs, inscribed, sent, lastDummy>>

\* the dummy picked after the creation: the unspent list is queried again and
\* sorted, the inscription filter is not applied to it
RequeriedDummyUtxos(w) == PotentialDummyUtxos(SortByAmount(w))

(* ---- retrieve_dummy_utxo: finalize, broadcast, query again ---- *)
DummyBroadcast ==
  /\ pc = "dummy_send"
  /\ IF NodeAccepts(wallet, dummyTx)
     THEN /\ wallet' = ApplyTx(wallet, dummyTx, nextId, 0)
          /\ nextId' = nextId + Len(dummyTx.output)
          /\ sent' = Append(sent, dummyTx)
          /\ IF Len(RequeriedDummyUtxos(wallet')) = 0
             THEN pc' = "panicked" /\ dummy' = dummy
             ELSE pc' = "build" /\ dummy' = RequeriedDummyUtxos(wallet')[1]
     ELSE /\ pc' = "panicked"
          /\ UNCHANGED <<wallet, nextId, sent, dummy>>
  /\ UNCHANGED <<run, build, sellerPsbt, inscriptionTxOut, balance, sorted, dummyTx,
                 purchaseTx, rest, selected, paymentValue, buyerPsbtInputs,
                 inscribed, signed, lastDummy>>

\* seller_psbt.extract_tx() of a PSBT that is not finalized: its unsigned tx
ExtractTx(psbt) == psbt.tx

(* ---- create_buyer_psbt: the first two inputs and outputs ---- *)
BuildPurchaseTx ==
  /\ pc = "build"
  /\ purchaseTx' =
       [input  |-> <<TxIn(dummy.id, "empty", "MAX"),
                     TxIn(ExtractTx(sellerPsbt).input[1].prev,
                          ExtractTx(sellerPsbt).input[1].script_sig,
                          ExtractTx(sellerPsbt).input[1].sequence)>>,
        output |-> <<TxOut(inscriptionTxOut.value + dummy.amount, "buyer"),
                     ExtractTx(sellerPsbt).output[1]>>]
  /\ rest' = Reverse(sorted)
  /\ selected' = <<>>
  /\ paymentValue' = 0
  /\ pc' = "select"
  /\ UNCHANGED <<run, build, wallet, nextId, sellerPsbt, inscriptionTxOut, balance,
                 sorted, dummy, dummyTx, buyerPsbtInputs, inscribed, signed, sent,
                 lastDummy>>

\* the loop leaves once the accumulated value covers the requirement
PaymentSatisfied(value) == value >= RequiredPaymentValue

(* ---- create_buyer_psbt: one iteration of the payment loop ---- *)
SelectPayment ==
  /\ pc = "select"
  /\ IF rest = <<>>
     THEN /\ pc' = "check"
          /\ UNCHANGED <<rest, selected, purchaseTx, paymentValue>>
     ELSE /\ selected' = Append(selected, Head(rest))
          /\ purchaseTx' = [purchaseTx EXCEPT
                              !.input = Append(@, TxIn(Head(rest).id, "empty", "MAX"))]
          /\ paymentValue' = paymentValue + Head(rest).amount
          /\ rest' = Tail(rest)
          /\ pc' = IF PaymentSatisfied(paymentValue') THEN "check" ELSE "select"
  /\ UNCHANGED <<run, build, wallet, nextId, sellerPsbt, inscriptionTxOut, balance,
                 sorted, dummy, dummyTx, buyerPsbtInputs, inscribed, signed, sent,
                 lastDummy>>

(* ---- create_buyer_psbt: the check behind the loop ---- *)
CheckPayment ==
  /\ pc = "check"
  /\ pc' = IF paymentValue < PRICE THEN "abandoned_payment" ELSE "outputs"
  /\ UNCHANGED <<run, build, wallet, nextId, sellerPsbt, inscriptionTxOut, balance,
                 sorted, dummy, dummyTx, purchaseTx, rest, selected, paymentValue,
                 buyerPsbtInputs, inscribed, signed, sent, lastDummy>>

(* ---- create_buyer_psbt: marketplace fee, allowance and change outputs ---- *)
PushOutputs ==
  /\ pc = "outputs"
  /\ IF build = "debug" /\ Underflows(paymentValue, RequiredPaymentValue)
     THEN pc' = "panicked" /\ purchaseTx' = purchaseTx
     ELSE /\ purchaseTx' =
               [purchaseTx EXCEPT
                  !.output = @ \o <<TxOut(SERVICE_FEE, "market"),
                                    TxOut(DummyAllowance, "buyer"),
                                    TxOut(SubU64(paymentValue, RequiredPaymentValue),
                                          "buyer")>>]
          /\ pc' = "psbt"
  /\ UNCHANGED <<run, build, wallet, nextId, sellerPsbt, inscriptionTxOut, balance,
                 sorted, dummy, dummyTx, rest, selected, paymentValue,
                 buyerPsbtInputs, inscribed, signed, sent, lastDummy>>

\* an index that is one too low and so reaches the seller's input
PaymentInputIndexOffByOne(i) == i + 1

\* the PSBT input that receives the i-th selected payment output's data
PaymentInputIndex(i) == i + 2

RECURSIVE AttachPayments(_, _, _)
AttachPayments(ins, sel, i) ==
  IF i > Len(sel) THEN ins
  ELSE AttachPayments(
         [ins EXCEPT ![PaymentInputIndex(i)].non_witness_utxo = sel[i].id], sel, i + 1)

BuyerPsbtInputs(tx, dmy, seller, sel) ==
  LET s0 == FromUnsignedTx(tx)
      s1 == [s0 EXCEPT ![1].non_witness_utxo = dmy.id]
      s2 == [s1 EXCEPT ![2] = seller.inputs[1]]
  IN  AttachPayments(s2, sel, 1)

(* ---- create_buyer_psbt: the PSBT and its per-input data ---- *)
BuildBuyerPsbt ==
  /\ pc = "psbt"
  /\ buyerPsbtInputs' = BuyerPsbtInputs(purchaseTx, dummy, sellerPsbt, selected)
  /\ pc' = "sign"
  /\ UNCHANGED <<run, build, wallet, nextId, sellerPsbt, inscriptionTxOut, balance,
                 sorted, dummy, dummyTx, purchaseTx, rest, selected, paymentValue,
                 inscribed, signed, sent, lastDummy>>

(* ---- create_buyer_psbt: hand-off to the buyer wallet ---- *)
ProcessBuyerPsbt ==
  /\ pc = "sign"
  /\ signed' = Append(signed, [kind |-> "purchase", tx |-> purchaseTx,
                               inputs |-> buyerPsbtInputs])
  /\ pc' = "finalize"
  /\ UNCHANGED <<run, build, wallet, nextId, sellerPsbt, inscriptionTxOut, balance,
                 sorted, dummy, dummyTx, purchaseTx, rest, selected, paymentValue,
                 buyerPsbtInputs, inscribed, sent, lastDummy>>

(* ---- main: finalize and broadcast the purchase ---- *)
FinalizeAndSend ==
  /\ pc = "finalize"
  /\ IF NodeAccepts(wallet, purchaseTx)
     THEN /\ wallet' = ApplyTx(wallet, purchaseTx, nextId, 1)
          /\ nextId' = nextId + Len(purchaseTx.output)
          /\ sent' = Append(sent, purchaseTx)
          /\ pc' = "done"
     ELSE /\ pc' = "panicked"
          /\ UNCHANGED <<wallet, nextId, sent>>
  /\ UNCHANGED <<run, build, sellerPsbt, inscriptionTxOut, balance, sorted, dummy,
                 dummyTx, purchaseTx, rest, selected, paymentValue, buyerPsbtInputs,
                 inscribed, signed, lastDummy>>

Stopped == {"abandoned_balance", "abandoned_nospendable", "abandoned_payment", "panicked"}

(* ---- the program is started again after a run that did not settle ---- *)
Rerun ==
  /\ pc \in Stopped
  /\ run < MaxRuns
  /\ run' = run + 1
  /\ lastDummy' = IF sent # <<>> THEN None
                  ELSE IF dummy # None THEN dummy ELSE lastDummy
  /\ pc' = "main"
  /\ sellerPsbt' = [tx |-> NoTx, inputs |-> <<>>]
  /\ inscriptionTxOut' = TxOut(0, "none")
  /\ balance' = 0
  /\ sorted' = <<>>
  /\ dummy' = None
  /\ dummyTx' = NoTx
  /\ purchaseTx' = NoTx
  /\ rest' = <<>>
  /\ selected' = <<>>
  /\ paymentValue' = 0
  /\ buyerPsbtInputs' = <<>>
  /\ signed' = <<>>
  /\ sent' = <<>>
  /\ UNCHANGED <<build, wallet, nextId, inscribed>>

Next ==
  \/ CreateSellerPsbt
  \/ CheckBalance
  \/ ListSpendable
  \/ RetrieveDummyReuse
  \/ RetrieveDummyCreate
  \/ DummyBroadcast
  \/ BuildPurchaseTx
  \/ SelectPayment
  \/ CheckPayment
  \/ PushOutputs
  \/ BuildBuyerPsbt
  \/ ProcessBuyerPsbt
  \/ FinalizeAndSend
  \/ Rerun

Spec == Init /\ [][Next]_vars

(* ======================= properties ======================= *)

\* positions of `signed` that hold a combined purchase / a separator creation
PurchasesSigned == {k \in 1..Len(signed) : signed[k].kind = "purchase"}
DummiesSigned == {k \in 1..Len(signed) : signed[k].kind = "dummy"}

\* the outputs whose u64 value is the result of a wrapped subtraction
WrappedOutputs(tx) == {i \in 1..Len(tx.output) : tx.output[i].value < 0}

InputIds(tx) == {tx.input[i].prev : i \in 1..Len(tx.input)}

IsHolder(id) == \E j \in 1..Len(wallet) : wallet[j].id = id /\ wallet[j].insc

Amts(s) == [i \in 1..Len(s) |-> s[i].amount]

\* C1: every combined purchase transaction handed to the buyer wallet conserves
\* value: separator + inscribed output + selected payments equals the sum of
\* its five outputs plus the fixed overhead 472, as sums of u64 values.
C1_ValueConservation ==
  \A k \in PurchasesSigned :
    /\ Len(signed[k].tx.output) = 5
    /\ WrappedOutputs(signed[k].tx) = {}
    /\ dummy.amount + inscriptionTxOut.value + SumAmounts(selected)
         = SumValues(signed[k].tx.output) + Overhead

\* C2: when the candidates are exhausted below the required 4372 the trade is
\* abandoned: the run never goes on to assemble the outputs with less than
\* 4372 accumulated, and no signed purchase has a wrapped change output.
C2_ShortfallAbandons ==
  /\ pc \in {"outputs", "psbt", "sign", "finalize", "done"}
       => paymentValue >= RequiredPaymentValue
  /\ \A k \in PurchasesSigned : signed[k].tx.output[5].value >= 0

\* C3: no input the buyer contributes to a combined transaction handed to the
\* wallet (the separator at index 0, the payments at indices 2..) is an output
\* the classifier reports as an inscription holder.
C3_NoInscriptionInput ==
  \A k \in PurchasesSigned :
    \A i \in 1..Len(signed[k].tx.input) :
      i # 2 => ~IsHolder(signed[k].tx.input[i].prev)

\* the first entry of value <= 1000 in a list
FirstOfDummySize(utxos) ==
  utxos[CHOOSE i \in 1..Len(utxos) :
          /\ utxos[i].amount <= DummyValue
          /\ \A j \in 1..(i - 1) : utxos[j].amount > DummyValue]

\* C4: when the spendable set holds an output of value <= 1000, the call of
\* retrieve_dummy_utxo signs and broadcasts nothing, leaves the wallet as it
\* is, returns the first such output, and returns the same output as the
\* previous run did on the same wallet state.
C4_ReuseIsIdempotent ==
  [][(pc = "dummy" /\ \E i \in 1..Len(sorted) : sorted[i].amount <= DummyValue)
       => /\ sent' = sent
          /\ signed' = signed
          /\ wallet' = wallet
          /\ pc' = "build"
          /\ dummy' = FirstOfDummySize(sorted)
          /\ (lastDummy # None => dummy' = lastDummy)]_vars

\* a later run reuses the separator an earlier run created and the one the
\* previous run returned
C4_Witness ==
  /\ run > 1
  /\ nextId > MaxUtxos + 1
  /\ pc = "build"
  /\ sent = <<>>
  /\ signed = <<>>
  /\ lastDummy # None
  /\ dummy = lastDummy

\* C5: a run whose balance is below PRICE, or whose wallet holds no
\* non-inscription output, stops at the pre-check with nothing broadcast and
\* nothing handed to the buyer wallet.
C5_PrecheckAbandonsClean ==
  /\ (pc \notin {"main", "balance"} /\ balance < PRICE)
       => (pc = "abandoned_balance" /\ sent = <<>> /\ signed = <<>>)
  /\ (pc \notin {"main", "balance", "list", "abandoned_balance"}
        /\ \A i \in 1..Len(wallet) : wallet[i].insc)
       => (pc = "abandoned_nospendable" /\ sent = <<>> /\ signed = <<>>)

C5_Witness ==
  /\ pc = "abandoned_nospendable"
  /\ balance >= PRICE
  /\ Len(wallet) > 0
  /\ run > 1

\* C6: the selected payments are the shortest prefix of the largest-first
\* order of the candidates whose sum reaches 4372, or all candidates; the
\* candidates 500, 3000, 5000 select 5000 alone with change 628.
C6_ShortestLargestFirstPrefix ==
  /\ pc \in {"check", "outputs", "psbt", "sign", "finalize"} =>
       LET n == Len(selected) IN
       /\ n >= 1
       /\ \A i, j \in 1..n : i # j => selected[i].id # selected[j].id
       /\ \A i \in 1..n : \E j \in 1..Len(sorted) : sorted[j] = selected[i]
       /\ \A i \in 1..(n - 1) : selected[i].amount >= selected[i + 1].amount
       /\ \A j \in 1..Len(sorted) :
            (\A i \in 1..n : selected[i].id # sorted[j].id)
              => sorted[j].amount <= selected[n].amount
       /\ paymentValue = SumAmounts(selected)
       /\ paymentValue - selected[n].amount < RequiredPaymentValue
       /\ paymentValue >= RequiredPaymentValue \/ n = Len(sorted)
       /\ Len(purchaseTx.input) = n + 2
       /\ \A i \in 1..n : purchaseTx.input[i + 2].prev = selected[i].id
  /\ (pc = "psbt" /\ Amts(sorted) = <<500, 3000, 5000>>)
       => (Amts(selected) = <<5000>> /\ purchaseTx.output[5].value = 628)

C6_Witness ==
  /\ pc = "psbt"
  /\ Amts(sorted) = <<500, 3000, 5000>>
  /\ Amts(selected) = <<5000>>
  /\ purchaseTx.output[5].value = 628

\* C7: in every combined transaction handed to the buyer wallet, input 1 and
\* output 1 are the seller's input and output, and PSBT input 1 is the seller
\* PSBT's input data, whatever the number of payment inputs; the seller's
\* pair stays in place from the moment it is copied.
C7_SellerPairUnmodified ==
  /\ pc \in {"select", "check", "outputs", "psbt", "sign", "finalize"} =>
       /\ purchaseTx.input[2].prev = sellerPsbt.tx.input[1].prev
       /\ purchaseTx.input[2].script_sig = sellerPsbt.tx.input[1].script_sig
       /\ purchaseTx.input[2].sequence = sellerPsbt.tx.input[1].sequence
       /\ purchaseTx.output[2] = sellerPsbt.tx.output[1]
       /\ purchaseTx.output[2] = TxOut(PRICE, "seller")
  /\ \A k \in PurchasesSigned :
       /\ signed[k].tx.input[2].prev = sellerPsbt.tx.input[1].prev
       /\ signed[k].tx.input[2].script_sig = sellerPsbt.tx.input[1].script_sig
       /\ signed[k].tx.input[2].sequence = sellerPsbt.tx.input[1].sequence
       /\ signed[k].tx.output[2] = sellerPsbt.tx.output[1]
       /\ signed[k].inputs[2] = sellerPsbt.inputs[1]
       /\ signed[k].inputs[2].partial_sig = "seller"
       /\ signed[k].inputs[2].sighash_type = "SINGLE|ANYONECANPAY"
       /\ signed[k].inputs[2].non_witness_utxo = InscriptionOutPoint

C7_Witness ==
  /\ PurchasesSigned # {}
  /\ Len(selected) >= 2
  /\ Len(purchaseTx.input) = Len(selected) + 2

\* C8: every separator-creation transaction handed to the buyer wallet has a
\* strictly positive change output (source value - 1000 - 258, no underflow).
C8_DummyChangePositive ==
  \A k \in DummiesSigned : signed[k].tx.output[2].value > 0

\* C9: the inputs of every combined transaction handed to the buyer wallet
\* reference pairwise distinct outputs.
C9_InputsDistinct ==
  \A k \in PurchasesSigned :
    \A i, j \in 1..Len(signed[k].tx.input) :
      i # j => signed[k].tx.input[i].prev # signed[k].tx.input[j].prev

\* C10: when the combined transaction is handed to the buyer wallet, none of
\* its inputs references an output spent by a transaction this run broadcast.
C10_NoSpentInput ==
  pc \in {"sign", "finalize"} =>
    \A t \in 1..Len(sent) : InputIds(purchaseTx) \cap InputIds(sent[t]) = {}

====
